---- MODULE Spec2Model ----
(***************************************************************************)
(* A model of fixelcfestats (src/cmd/fixelcfestats.cpp): the fixel index   *)
(* built over the mask, the multi-threaded TrackProcessor that accumulates *)
(* the fixel-fixel connectivity matrix and the track density (TDI), the    *)
(* symmetrisation and normalisation of that matrix, and the sequence of    *)
(* loads, checks and file writes of run().                                 *)
(*                                                                         *)
(* Five specifications share the variables:                                *)
(*   SpecIndex  the fixel index loops of run() over every mask in Masks;   *)
(*   Spec       TrackProcessor workers, then symmetrise and finalise;      *)
(*   SpecFair   Spec with weakly fair worker steps;                        *)
(*   SpecTDI    one worker processing a long stream of streamlines;        *)
(*   SpecRun    run() as the sequence of its loads, throws and writes.     *)
(*                                                                         *)
(* Values of the connectivity matrix are rationals <<num, den>> in lowest  *)
(* terms (den = 0 is the float +inf); float rounding is not modelled.      *)
(* Directions are angles in degrees within one plane, multiples of 15, and *)
(* a dot product of unit vectors is the cosine of their difference, in     *)
(* thousandths.  smoothing_weights and the fixel positions (which need     *)
(* exp and sqrt) are left out: no property stated here reads them.         *)
(***************************************************************************)
EXTENDS Integers, Sequences, FiniteSets, TLC

\* ------------------------------------------------------------------ bounds
NumVoxels == 3
MaxFixelsPerVoxel == 2
MaxTracks == 2
NumWorkers == 2
MaxTrackLen == 2
MaxDesignColumns == 2
MaxMatches == 65537

\* ------------------------------------------------------- program constants
TDIModulus == 65536
DefaultAngle == 30

VARIABLES
  \* fixel index (run, lines 284-317)
  mask,                 \* voxel (scan order) -> sequence of fixel directions
  fixel_indexer,        \* voxel -> [first |-> plane 0, count |-> plane 1]
  directions,           \* the fixel table: sequence of directions
  ipc,                  \* position of run() in the index loops
  \* connectivity (TrackProcessor, run lines 320-397)
  fixel_TDI,            \* fixel -> uint16 track count
  connectivity_matrix,  \* fixel -> (fixel -> value), a sparse row each
  fixel_mutexes,        \* fixel -> 0 (free) or the worker holding it
  wk,                   \* worker -> its position in operator()
  num_tracks,           \* properties["count"]
  loaded,               \* streamlines handed to workers, in order (history)
  phase,                \* position of run() in lines 333-397
  fin,                  \* parameters read by the finaliser
  tdi_matches,          \* fixel -> accepted matches so far (history, SpecTDI)
  \* orchestration (run, lines 208-521)
  rpc, cmdline, params, ncontrasts, written, error

vars == <<mask, fixel_indexer, directions, ipc,
          fixel_TDI, connectivity_matrix, fixel_mutexes, wk, num_tracks,
          loaded, phase, fin, tdi_matches,
          rpc, cmdline, params, ncontrasts, written, error>>

indexVars == <<mask, fixel_indexer, directions, ipc>>
connVars == <<fixel_TDI, connectivity_matrix, fixel_mutexes, wk, num_tracks,
              loaded, phase, fin, tdi_matches>>
runVars == <<rpc, cmdline, params, ncontrasts, written, error>>

\* ------------------------------------------------------------ fixel index
Voxels == 1..NumVoxels
FixelDirs == {0, 90}

RECURSIVE SeqsUpTo(_, _)
SeqsUpTo(S, n) ==
  IF n = 0 THEN {<<>>}
  ELSE LET shorter == SeqsUpTo(S, n - 1)
       IN shorter \cup {Append(s, x) : s \in {t \in shorter : Len(t) = n - 1}, x \in S}

\* The fixels of one voxel: distinct directions, in the order the mask stores them.
VoxelFixels ==
  {s \in SeqsUpTo(FixelDirs, MaxFixelsPerVoxel) :
     \A a, b \in 1..Len(s) : a # b => s[a] # s[b]}

Masks == [Voxels -> VoxelFixels]

\* lines 294-296: every value of both planes is set to -1
IndexerCleared == [v \in Voxels |-> [first |-> -1, count |-> -1]]

\* lines 304-314: the body of the loop over the mask for voxel v
IndexVoxelBodyFirstAfterPush(ix, dirs, m, v) ==
  [indexer |-> [ix EXCEPT ![v] = [first |-> Len(dirs \o m[v]), count |-> Len(m[v])]],
   dirs |-> dirs \o m[v]]
IndexVoxelBody(ix, dirs, m, v) ==
  [indexer |-> [ix EXCEPT ![v] = [first |-> Len(dirs), count |-> Len(m[v])]],
   dirs |-> dirs \o m[v]]

RECURSIVE IndexLoop(_, _, _, _)
IndexLoop(ix, dirs, m, v) ==
  IF v > NumVoxels THEN [indexer |-> ix, dirs |-> dirs]
  ELSE LET r == IndexVoxelBody(ix, dirs, m, v)
       IN IndexLoop(r.indexer, r.dirs, m, v + 1)

\* lines 294-317 as a whole
BuildIndex(m) == IndexLoop(IndexerCleared, <<>>, m, 1)

NoConn ==
  /\ fixel_TDI = <<>> /\ connectivity_matrix = <<>> /\ fixel_mutexes = <<>>
  /\ wk = <<>> /\ num_tracks = 0 /\ loaded = <<>> /\ phase = "off"
  /\ fin = <<>> /\ tdi_matches = <<>>

NoRun ==
  /\ rpc = "off" /\ cmdline = <<>> /\ params = <<>> /\ ncontrasts = 0
  /\ written = {} /\ error = "none"

InitIndex ==
  /\ mask \in Masks
  /\ fixel_indexer = [v \in Voxels |-> [first |-> 0, count |-> 0]]
  /\ directions = <<>>
  /\ ipc = 0
  /\ NoConn /\ NoRun

\* lines 294-296
IndexFill ==
  /\ ipc = 0
  /\ fixel_indexer' = IndexerCleared
  /\ ipc' = 1
  /\ UNCHANGED <<mask, directions, connVars, runVars>>

\* lines 303-315, one iteration
IndexVoxel ==
  /\ ipc \in Voxels
  /\ LET r == IndexVoxelBody(fixel_indexer, directions, mask, ipc)
     IN /\ fixel_indexer' = r.indexer
        /\ directions' = r.dirs
  /\ ipc' = ipc + 1
  /\ UNCHANGED <<mask, connVars, runVars>>

NextIndex == IndexFill \/ IndexVoxel

SpecIndex == InitIndex /\ [][NextIndex]_vars

\* line 317
num_fixels == Len(directions)
IndexBuilt == ipc = NumVoxels + 1

\* ------------------------------------------------------------- arithmetic
RECURSIVE GCD(_, _)
GCD(a, b) == IF b = 0 THEN a ELSE GCD(b, a % b)

\* A float value as a rational in lowest terms; <<1, 0>> is +inf.
Rat(n, d) ==
  IF d = 0 THEN <<1, 0>>
  ELSE LET g == GCD(n, d) IN IF g = 0 THEN <<0, 1>> ELSE <<n \div g, d \div g>>

Zero == Rat(0, 1)
One == Rat(1, 1)
RatInc(q) == Rat(q[1] + q[2], q[2])
RatLess(p, q) == p[2] # 0 /\ (q[2] = 0 \/ p[1] * q[2] < q[1] * p[2])

RECURSIVE IntPow(_, _)
IntPow(b, e) == IF e = 0 THEN 1 ELSE b * IntPow(b, e - 1)

\* Math::pow (q, c) for an exponent c that is a natural number
RatPow(q, c) ==
  IF c = 0 THEN One
  ELSE IF q[2] = 0 THEN q
  ELSE Rat(IntPow(q[1], c), IntPow(q[2], c))

\* cos of an angle of 0..90 degrees (a multiple of 15), in thousandths
Cos1000(deg) ==
  CASE deg = 0 -> 1000 [] deg = 15 -> 966 [] deg = 30 -> 866 [] deg = 45 -> 707
    [] deg = 60 -> 500 [] deg = 75 -> 259 [] deg = 90 -> 0

\* Math::abs (dir.dot (d)) for unit vectors at angles a and b
AbsDot(a, b) ==
  LET d == IF a >= b THEN (a - b) % 180 ELSE (b - a) % 180
  IN Cos1000(IF d > 90 THEN 180 - d ELSE d)

\* ------------------------------------------------------- sparse matrix rows
EmptyRow == [x \in {} |-> Zero]
RowPut(row, k, v) == [x \in DOMAIN row \cup {k} |-> IF x = k THEN v ELSE row[x]]
RowErase(row, k) == [x \in DOMAIN row \ {k} |-> row[x]]
\* std::map operator[]: a missing key is created with value 0
RowGet(row, k) == IF k \in DOMAIN row THEN row[k] ELSE Zero
\* std::map insert: an existing key keeps its value
RowInsert(row, k, v) == IF k \in DOMAIN row THEN row ELSE RowPut(row, k, v)

\* ------------------------------------------------------- TrackProcessor
Workers == 1..NumWorkers
Fixels == 0..(num_fixels - 1)
Tangents == {0, 75}

\* The mask of the connectivity runs: voxels of one fixel, of two fixels and
\* of none, in turn.
TemplateMask ==
  [v \in Voxels |-> CASE v % 3 = 1 -> <<0>> [] v % 3 = 2 -> <<0, 90>> [] OTHER -> <<>>]

\* SetVoxelDir: (voxel, tangent) pairs of distinct voxels, in the iteration
\* order of the set, which is not tied to the scan order of the mask.
TrackInputs ==
  {s \in SeqsUpTo([vox : Voxels, dir : Tangents], MaxTrackLen) :
     \A a, b \in 1..Len(s) : a # b => s[a].vox # s[b].vox}

\* lines 146-152: the scan of the voxel's fixels for the largest |dot product|
RECURSIVE ClosestLoop(_, _, _, _, _, _)
ClosestLoop(dirs, j, last_index, dir, largest_dp, closest) ==
  IF j >= last_index THEN [largest_dp |-> largest_dp, closest |-> closest]
  ELSE LET dp == AbsDot(dir, dirs[j + 1])
       IN IF dp > largest_dp
            THEN ClosestLoop(dirs, j + 1, last_index, dir, dp, j)
            ELSE ClosestLoop(dirs, j + 1, last_index, dir, largest_dp, closest)

\* lines 136-153: the fixel a (voxel, tangent) pair is assigned to, or -1
MatchVoxel(ix, dirs, vd, angular_threshold_dp) ==
  LET first_index == ix[vd.vox].first
  IN IF first_index >= 0
       THEN LET r == ClosestLoop(dirs, first_index, first_index + ix[vd.vox].count,
                                 vd.dir, 0, -1)
            IN IF r.largest_dp > angular_threshold_dp THEN r.closest ELSE -1
       ELSE -1

\* line 128
angular_threshold_dp == Cos1000(DefaultAngle)

\* line 161: Thread::Mutex::Lock blocks until the row's mutex is free
CanLockNoMutex(mx, f) == TRUE
CanLock(mx, f) == mx[f] = 0

\* line 167: lock_i goes out of scope and releases the row's mutex
UnlockNever(mx, f) == mx
Unlock(mx, f) == [mx EXCEPT ![f] = 0]

IdleWorker == [pc |-> "idle", in |-> <<>>, pos |-> 0, L |-> <<>>, i |-> 0, j |-> 0,
               tmp |-> 0]

InitConn ==
  /\ mask = TemplateMask
  /\ fixel_indexer = BuildIndex(mask).indexer
  /\ directions = BuildIndex(mask).dirs
  /\ ipc = NumVoxels + 1
  /\ fixel_TDI = [f \in Fixels |-> 0]
  /\ connectivity_matrix = [f \in Fixels |-> EmptyRow]
  /\ fixel_mutexes = [f \in Fixels |-> 0]
  /\ wk = [w \in Workers |-> IdleWorker]
  /\ num_tracks \in 1..MaxTracks
  /\ loaded = <<>>
  /\ phase = "accumulate"
  /\ fin = <<>>
  /\ tdi_matches = <<>>
  /\ NoRun

\* Thread::run_queue hands the next SetVoxelDir to a free TrackProcessor
W_Take(w) ==
  /\ phase = "accumulate" /\ wk[w].pc = "idle"
  /\ Len(loaded) < num_tracks
  /\ \E in \in TrackInputs :
       /\ loaded' = Append(loaded, in)
       /\ wk' = [wk EXCEPT ![w] = [IdleWorker EXCEPT !.in = in, !.pos = 1,
                    !.pc = IF Len(in) = 0 THEN "idle" ELSE "match"]]
  /\ UNCHANGED <<indexVars, tdi_matches, fixel_TDI, connectivity_matrix, fixel_mutexes,
                 num_tracks, phase, fin, runVars>>

\* where the first loop goes after the element at pos
AfterElement(s) ==
  [s EXCEPT !.pos = s.pos + 1,
            !.i = 1,
            !.tmp = 0,
            !.pc = IF s.pos + 1 > Len(s.in) THEN "lock" ELSE "match"]

\* lines 135-155 for one element of the set: the match, the push_back and
\* the read half of fixel_TDI[closest_fixel_index]++
W_Match(w) ==
  /\ wk[w].pc = "match"
  /\ LET s == wk[w]
         k == MatchVoxel(fixel_indexer, directions, s.in[s.pos], angular_threshold_dp)
     IN wk' = [wk EXCEPT ![w] =
                 IF k >= 0
                   THEN [s EXCEPT !.L = Append(s.L, k), !.tmp = fixel_TDI[k],
                                  !.pc = "tdi_write"]
                   ELSE AfterElement(s)]
  /\ UNCHANGED <<indexVars, tdi_matches, fixel_TDI, connectivity_matrix, fixel_mutexes,
                 num_tracks, loaded, phase, fin, runVars>>

\* line 155: the write half of the unguarded uint16_t increment
W_TDIWrite(w) ==
  /\ wk[w].pc = "tdi_write"
  /\ LET s == wk[w]
         k == s.L[Len(s.L)]
     IN /\ fixel_TDI' = [fixel_TDI EXCEPT ![k] = (s.tmp + 1) % TDIModulus]
        /\ wk' = [wk EXCEPT ![w] = AfterElement(s)]
  /\ UNCHANGED <<indexVars, tdi_matches, connectivity_matrix, fixel_mutexes,
                 num_tracks, loaded, phase, fin, runVars>>

\* lines 160-161: the outer loop test, then the lock of row L[i]
W_Lock(w) ==
  /\ wk[w].pc = "lock"
  /\ LET s == wk[w]
     IN \/ /\ s.i > Len(s.L)
           /\ wk' = [wk EXCEPT ![w] = IdleWorker]
           /\ UNCHANGED fixel_mutexes
        \/ /\ s.i <= Len(s.L)
           /\ CanLock(fixel_mutexes, s.L[s.i])
           /\ fixel_mutexes' = [fixel_mutexes EXCEPT ![s.L[s.i]] = w]
           /\ wk' = [wk EXCEPT ![w] = [s EXCEPT !.j = s.i + 1, !.pc = "pair"]]
  /\ UNCHANGED <<indexVars, tdi_matches, fixel_TDI, connectivity_matrix,
                 num_tracks, loaded, phase, fin, runVars>>

\* lines 162-163 and 167: the inner loop test; the read half of value++, or
\* the end of the scope of lock_i
W_Pair(w) ==
  /\ wk[w].pc = "pair"
  /\ LET s == wk[w]
     IN \/ /\ s.j <= Len(s.L)
           /\ wk' = [wk EXCEPT ![w] =
                       [s EXCEPT !.tmp = RowGet(connectivity_matrix[s.L[s.i]], s.L[s.j]),
                                 !.pc = "cell_write"]]
           /\ UNCHANGED fixel_mutexes
        \/ /\ s.j > Len(s.L)
           /\ fixel_mutexes' = Unlock(fixel_mutexes, s.L[s.i])
           /\ wk' = [wk EXCEPT ![w] = [s EXCEPT !.i = s.i + 1, !.pc = "lock"]]
  /\ UNCHANGED <<indexVars, tdi_matches, fixel_TDI, connectivity_matrix,
                 num_tracks, loaded, phase, fin, runVars>>

\* line 163: the write half of connectivity_matrix[L[i]][L[j]].value++
W_CellWrite(w) ==
  /\ wk[w].pc = "cell_write"
  /\ LET s == wk[w]
         a == s.L[s.i]
         b == s.L[s.j]
     IN /\ connectivity_matrix' =
             [connectivity_matrix EXCEPT ![a] = RowPut(@, b, RatInc(s.tmp))]
        /\ wk' = [wk EXCEPT ![w] = [s EXCEPT !.j = s.j + 1, !.tmp = 0, !.pc = "pair"]]
  /\ UNCHANGED <<indexVars, tdi_matches, fixel_TDI, fixel_mutexes,
                 num_tracks, loaded, phase, fin, runVars>>

\* --------------------------------------------------- symmetrise, finalise
ConnThresholds == {Rat(1, 100), Rat(3, 4)}
CfeCValues == {0, 1, 2}

RatAdd(p, q) == Rat(p[1] * q[2] + q[1] * p[2], p[2] * q[2])

\* line 354: connectivity_matrix[it->first][fixel] = it->second
SymAssignAdd(row, fixel, v) == RowPut(row, fixel, RatAdd(RowGet(row, fixel), v))
SymAssign(row, fixel, v) == RowPut(row, fixel, v)

\* lines 351-356: the loop over the entries of row fixel, which writes one
\* cell of every row that is a key of it
SymmetriseRow(M, fixel) ==
  [k \in DOMAIN M |->
     IF k \in DOMAIN M[fixel] THEN SymAssign(M[k], fixel, M[fixel][k]) ELSE M[k]]

RECURSIVE SymmetriseFrom(_, _)
SymmetriseFrom(M, fixel) ==
  IF fixel \notin DOMAIN M THEN M
  ELSE SymmetriseFrom(SymmetriseRow(M, fixel), fixel + 1)

\* lines 350-357
SymmetriseMatrix(M) == SymmetriseFrom(M, 0)

\* line 373: it->second.value / value_type (fixel_TDI[fixel])
Connectivity(v, tdi) == Rat(v[1], v[2] * tdi)

\* lines 391-393: insert of the self connectivity
InsertDiagonalIfConnected(row, fixel) ==
  IF DOMAIN row = {} THEN row ELSE RowInsert(row, fixel, One)
InsertDiagonal(row, fixel) == RowInsert(row, fixel, One)

\* lines 371-393 for one fixel: threshold, exponentiate, insert the diagonal
FinaliseRow(row, fixel, tdi, connectivity_threshold, cfe_c) ==
  LET kept == {k \in DOMAIN row :
                 ~RatLess(Connectivity(row[k], tdi), connectivity_threshold)}
  IN InsertDiagonal([k \in kept |-> RatPow(Connectivity(row[k], tdi), cfe_c)], fixel)

\* lines 370-396
FinaliseMatrix(M, tdi, connectivity_threshold, cfe_c) ==
  [f \in DOMAIN M |-> FinaliseRow(M[f], f, tdi[f], connectivity_threshold, cfe_c)]

\* lines 339-357: run_queue returns once every streamline is processed
Symmetrise ==
  /\ phase = "accumulate"
  /\ Len(loaded) = num_tracks
  /\ \A w \in Workers : wk[w].pc = "idle"
  /\ connectivity_matrix' = SymmetriseMatrix(connectivity_matrix)
  /\ phase' = "symmetrised"
  /\ UNCHANGED <<indexVars, tdi_matches, fixel_TDI, fixel_mutexes, wk, num_tracks, loaded, fin,
                 runVars>>

\* lines 359-397
Finalise ==
  /\ phase = "symmetrised"
  /\ \E thr \in ConnThresholds, c \in CfeCValues :
       /\ connectivity_matrix' = FinaliseMatrix(connectivity_matrix, fixel_TDI, thr, c)
       /\ fin' = [connectivity_threshold |-> thr, cfe_c |-> c]
  /\ phase' = "finalised"
  /\ UNCHANGED <<indexVars, tdi_matches, fixel_TDI, fixel_mutexes, wk, num_tracks, loaded,
                 runVars>>

Next ==
  \/ \E w \in Workers : W_Take(w)
  \/ \E w \in Workers : W_Match(w)
  \/ \E w \in Workers : W_TDIWrite(w)
  \/ \E w \in Workers : W_Lock(w)
  \/ \E w \in Workers : W_Pair(w)
  \/ \E w \in Workers : W_CellWrite(w)
  \/ Symmetrise
  \/ Finalise

Spec == InitConn /\ [][Next]_vars

\* -------------------------------------------------------------- run()
OptionNames == {"notest", "nperms", "cfe_dh", "cfe_e", "cfe_h", "cfe_c", "angle",
                "connectivity", "smooth", "nonstationary", "nperms_nonstationary"}
Flags == {"notest", "nonstationary"}

\* the argument given with an option when the command line supplies it
SampleArg(o) ==
  CASE o = "nperms" -> 100
    [] o = "cfe_dh" -> Rat(1, 5)
    [] o = "cfe_e" -> Rat(3, 1)
    [] o = "cfe_h" -> Rat(4, 1)
    [] o = "cfe_c" -> Rat(1, 2)
    [] o = "angle" -> Rat(45, 1)
    [] o = "connectivity" -> Rat(1, 20)
    [] o = "smooth" -> Rat(5, 1)
    [] o = "nperms_nonstationary" -> 200

\* get_options (o): the occurrences of option o, each the list of its arguments
Occurrence(o) == IF o \in Flags THEN <<>> ELSE <<SampleArg(o)>>
CommandLines ==
  {[o \in OptionNames |-> IF given[o] THEN <<Occurrence(o)>> ELSE <<>>] :
     given \in [OptionNames -> BOOLEAN]}
get_options(o) == cmdline[o]

\* x / 2.3548
FWHMToStdDev(x) == Rat(x[1] * 10000, x[2] * 23548)

\* lines 208-254
ParsedOptions ==
  [cfe_dh |-> IF Len(get_options("cfe_dh")) > 0 THEN get_options("cfe_dh")[1][1]
                ELSE Rat(1, 10),
   cfe_h |-> IF Len(get_options("cfe_h")) > 0 THEN get_options("cfe_h")[1][1]
               ELSE Rat(2, 1),
   cfe_e |-> IF Len(get_options("cfe_e")) > 0 THEN get_options("cfe_e")[1][1]
               ELSE Rat(1, 1),
   cfe_c |-> IF Len(get_options("cfe_c")) > 0 THEN get_options("cfe_c")[1][1]
               ELSE Rat(1, 10),
   angular_threshold |->
     IF Len(get_options("angle")) > 0 THEN get_options("angle")[1][1] ELSE Rat(30, 1),
   connectivity_threshold |->
     IF Len(get_options("connectivity")) > 0 THEN get_options("connectivity")[1][1]
       ELSE Rat(1, 100),
   smooth_std_dev |->
     IF Len(get_options("smooth")) > 0 THEN FWHMToStdDev(get_options("smooth")[1][1])
       ELSE FWHMToStdDev(Rat(10, 1)),
   do_nonstationary_adjustment |-> Len(get_options("nperms_nonstationary")) > 0,
   \* lines 228-231 and again 251-254: both read the option nperms
   num_perms |-> IF Len(get_options("nperms")) > 0 THEN get_options("nperms")[1][1]
                   ELSE 5000,
   nperms_nonstationary |-> 5000]

File(family, rest, ext) == <<family, rest, ext>>
Digit(i) == CASE i = 0 -> "0" [] i = 1 -> "1" [] i = 2 -> "2" [] i = 3 -> "3"
              [] i = 4 -> "4" [] OTHER -> "n"

\* lines 459-467: the files of the population statistics, in the order written
PopulationFiles(ncols) ==
  [i \in 1..ncols |-> File("_beta", Digit(i - 1), ".msf")]
    \o <<File("_abs_effect", "", ".msf"), File("_std_effect", "", ".msf"),
         File("_std_dev", "", ".msf")>>

\* lines 511-518: the files of the permutation test, in the order written
PermutationFiles ==
  <<File("_perm_dist", "_pos", ".txt"), File("_cfe", "_pos", ".msf"),
    File("_tvalue", "", ".msf"), File("_pvalue", "_pos", ".msf")>>

\* line 488
EmpiricalFiles == <<File("_cfe", "_empirical", ".msf")>>

\* the order of the statements of run()
StageAfterSubjectsLoadedLate(stage) ==
  CASE stage = "options" -> "filenames"
    [] stage = "filenames" -> "design"
    [] stage = "design" -> "contrast"
    [] stage = "contrast" -> "mask"
    [] stage = "mask" -> "tracks"
    [] stage = "tracks" -> "connectivity"
    [] stage = "connectivity" -> "population"
    [] stage = "population" -> "subjects"
    [] stage = "subjects" -> "nonstationary"
    [] stage = "nonstationary" -> "permutation"
    [] stage = "permutation" -> "done"
StageAfter(stage) ==
  CASE stage = "options" -> "filenames"
    [] stage = "filenames" -> "design"
    [] stage = "design" -> "contrast"
    [] stage = "contrast" -> "mask"
    [] stage = "mask" -> "tracks"
    [] stage = "tracks" -> "connectivity"
    [] stage = "connectivity" -> "subjects"
    [] stage = "subjects" -> "population"
    [] stage = "population" -> "nonstationary"
    [] stage = "nonstationary" -> "permutation"
    [] stage = "permutation" -> "done"

Running(stage) == rpc = stage /\ error = "none"

InitRun ==
  /\ mask = TemplateMask
  /\ fixel_indexer = [v \in Voxels |-> [first |-> 0, count |-> 0]]
  /\ directions = <<>>
  /\ ipc = 0
  /\ NoConn
  /\ rpc = "options"
  /\ cmdline \in CommandLines
  /\ params = <<>>
  /\ ncontrasts = 0
  /\ written = {}
  /\ error = "none"

Throw(kind) == error' = kind /\ UNCHANGED rpc
Proceed == rpc' = StageAfter(rpc) /\ UNCHANGED error

\* lines 208-254
ParseOptions ==
  /\ Running("options")
  /\ params' = ParsedOptions
  /\ Proceed
  /\ UNCHANGED <<indexVars, connVars, cmdline, ncontrasts, written>>

\* lines 256-268
ReadFilenames ==
  /\ Running("filenames")
  /\ \E exists \in BOOLEAN : IF exists THEN Proceed ELSE Throw("InputNotFound")
  /\ UNCHANGED <<indexVars, connVars, cmdline, params, ncontrasts, written>>

\* lines 270-274
LoadDesign ==
  /\ Running("design")
  /\ \E parsed \in BOOLEAN, rows_match \in BOOLEAN :
       IF ~parsed THEN Throw("ParseError")
       ELSE IF ~rows_match THEN Throw("DimensionMismatch")
       ELSE Proceed
  /\ UNCHANGED <<indexVars, connVars, cmdline, params, ncontrasts, written>>

\* lines 276-282: after the resize the contrast has the columns of the design
LoadContrast ==
  /\ Running("contrast")
  /\ \E parsed \in BOOLEAN, design_columns \in 1..MaxDesignColumns,
        contrast_columns \in 1..(MaxDesignColumns + 1) :
       IF ~parsed THEN Throw("ParseError") /\ UNCHANGED ncontrasts
       ELSE IF contrast_columns > design_columns
         THEN Throw("DimensionMismatch") /\ UNCHANGED ncontrasts
       ELSE Proceed /\ ncontrasts' = design_columns
  /\ UNCHANGED <<indexVars, connVars, cmdline, params, written>>

\* lines 284-317
OpenMask ==
  /\ Running("mask")
  /\ \E exists \in BOOLEAN :
       IF exists
         THEN /\ fixel_indexer' = BuildIndex(mask).indexer
              /\ directions' = BuildIndex(mask).dirs
              /\ ipc' = NumVoxels + 1
              /\ Proceed
         ELSE Throw("InputNotFound") /\ UNCHANGED <<fixel_indexer, directions, ipc>>
  /\ UNCHANGED <<mask, connVars, cmdline, params, ncontrasts, written>>

\* lines 321-330
OpenTracks ==
  /\ Running("tracks")
  /\ \E exists \in BOOLEAN, count \in 0..MaxTracks :
       IF ~exists THEN Throw("InputNotFound") /\ UNCHANGED num_tracks
       ELSE IF count = 0 THEN Throw("EmptyTractogram") /\ UNCHANGED num_tracks
       ELSE Proceed /\ num_tracks' = count
  /\ UNCHANGED <<indexVars, tdi_matches, fixel_TDI, connectivity_matrix, fixel_mutexes, wk, loaded,
                 phase, fin, cmdline, params, ncontrasts, written>>

\* lines 333-407: no statement of these lines throws or writes a file; the
\* matrix they build is the subject of Spec
ComputeConnectivity ==
  /\ Running("connectivity")
  /\ Proceed
  /\ UNCHANGED <<indexVars, connVars, cmdline, params, ncontrasts, written>>

\* lines 409-452
LoadSubjects ==
  /\ Running("subjects")
  /\ \E opened \in BOOLEAN, dimensions_match \in BOOLEAN :
       IF ~opened THEN Throw("InputNotFound")
       ELSE IF ~dimensions_match THEN Throw("DimensionMismatch")
       ELSE Proceed
  /\ UNCHANGED <<indexVars, connVars, cmdline, params, ncontrasts, written>>

\* write_fixel_output for the files in turn; the first nOK writes succeed
WriteFiles(files, nOK) ==
  /\ written' = written \cup {files[n] : n \in 1..nOK}
  /\ IF nOK < Len(files) THEN Throw("WriteError") ELSE Proceed

\* lines 454-468
WritePopulationStats ==
  /\ Running("population")
  /\ \E nOK \in 0..Len(PopulationFiles(ncontrasts)) :
       WriteFiles(PopulationFiles(ncontrasts), nOK)
  /\ UNCHANGED <<indexVars, connVars, cmdline, params, ncontrasts>>

\* lines 484-491
NonstationaryPrePass ==
  /\ Running("nonstationary")
  /\ IF params.do_nonstationary_adjustment
       THEN \E nOK \in 0..Len(EmpiricalFiles) : WriteFiles(EmpiricalFiles, nOK)
       ELSE Proceed /\ UNCHANGED written
  /\ UNCHANGED <<indexVars, connVars, cmdline, params, ncontrasts>>

\* lines 494-520
PermutationTest ==
  /\ Running("permutation")
  /\ IF Len(get_options("notest")) = 0
       THEN \E nOK \in 0..Len(PermutationFiles) : WriteFiles(PermutationFiles, nOK)
       ELSE Proceed /\ UNCHANGED written
  /\ UNCHANGED <<indexVars, connVars, cmdline, params, ncontrasts>>

NextRun ==
  \/ ParseOptions
  \/ ReadFilenames
  \/ LoadDesign
  \/ LoadContrast
  \/ OpenMask
  \/ OpenTracks
  \/ ComputeConnectivity
  \/ LoadSubjects
  \/ WritePopulationStats
  \/ NonstationaryPrePass
  \/ PermutationTest

SpecRun == InitRun /\ [][NextRun]_vars

\* ------------------------------------------------ reference computations
\* lines 135-158 run alone: the list tract_fixel_indices of one streamline
RECURSIVE MatchList(_, _)
MatchList(in, pos) ==
  IF pos > Len(in) THEN <<>>
  ELSE LET k == MatchVoxel(fixel_indexer, directions, in[pos], angular_threshold_dp)
       IN (IF k >= 0 THEN <<k>> ELSE <<>>) \o MatchList(in, pos + 1)

Count(s, x) == Cardinality({p \in 1..Len(s) : s[p] = x})

RECURSIVE SumOver(_, _)
SumOver(f, n) == IF n = 0 THEN 0 ELSE f[n] + SumOver(f, n - 1)

\* accepted (voxel, tangent) -> fixel f matches over all streamlines handed out
MatchesOf(f) ==
  SumOver([n \in 1..Len(loaded) |-> Count(MatchList(loaded[n], 1), f)], Len(loaded))

\* streamlines handed out whose list holds both a and b
Cooccurrences(a, b) ==
  Cardinality({n \in 1..Len(loaded) :
                 LET L == MatchList(loaded[n], 1)
                 IN Count(L, a) > 0 /\ Count(L, b) > 0})

\* lines 160-167 run by a single thread for the list L, from the pair (i, j)
RECURSIVE SeqPairs(_, _, _, _)
SeqPairs(M, L, i, j) ==
  IF i > Len(L) THEN M
  ELSE IF j > Len(L) THEN SeqPairs(M, L, i + 1, i + 2)
  ELSE SeqPairs([M EXCEPT ![L[i]] = RowPut(@, L[j], RatInc(RowGet(@, L[j])))],
                L, i, j + 1)

\* a single worker processing the streamlines tracks[order[1]], tracks[order[2]], ...
RECURSIVE SeqAccumulate(_, _, _, _)
SeqAccumulate(M, tracks, order, n) ==
  IF n > Len(tracks) THEN M
  ELSE SeqAccumulate(SeqPairs(M, MatchList(tracks[order[n]], 1), 1, 2),
                     tracks, order, n + 1)

Orders(n) == {o \in [1..n -> 1..n] : \A a, b \in 1..n : a # b => o[a] # o[b]}

AccumulationDone ==
  /\ phase = "accumulate"
  /\ Len(loaded) = num_tracks
  /\ \A w \in Workers : wk[w].pc = "idle"

SymmetricMatrix(M) ==
  \A i, j \in DOMAIN M :
    i # j => /\ (j \in DOMAIN M[i] <=> i \in DOMAIN M[j])
             /\ (j \in DOMAIN M[i] => M[i][j] = M[j][i])

\* ----------------------------------------------------------------- claims

\* C1: once every streamline is processed, TDI[f] is the number of accepted
\* matches to fixel f over all streamlines: no increment is lost, whatever
\* the interleaving of the workers.
C1_NoLostTDIIncrement ==
  AccumulationDone => \A f \in Fixels : fixel_TDI[f] = MatchesOf(f)

\* C2: the matrix after accumulation and symmetrisation is the one a single
\* worker builds by processing the same streamlines one after another, in
\* any order.
C2_OrderInvariant ==
  phase = "symmetrised" =>
    \A o \in Orders(Len(loaded)) :
      connectivity_matrix =
        SymmetriseMatrix(SeqAccumulate([f \in Fixels |-> EmptyRow], loaded, o, 1))

\* two streamlines have incremented the same cell
C2_Witness ==
  /\ phase = "symmetrised"
  /\ Len(loaded) = 2
  /\ \E a, b \in Fixels : b \in DOMAIN connectivity_matrix[a]
                            /\ connectivity_matrix[a][b] = Rat(2, 1)

\* C3 as stated: after the finaliser the matrix is symmetric in its key
\* sets and in its values.
C3_SymmetricAfterFinalise ==
  phase = "finalised" => SymmetricMatrix(connectivity_matrix)

\* C3 amended: after symmetrisation, before the rows are normalised and
\* thresholded, the matrix is symmetric in its key sets and in its counts.
C3_SymmetricAfterSymmetrise ==
  phase = "symmetrised" => SymmetricMatrix(connectivity_matrix)

\* a pair recorded by the accumulation in the lower triangle only or in the
\* upper triangle only is now in both rows
C3_Witness ==
  /\ phase = "symmetrised"
  /\ \E a, b \in Fixels :
       /\ a < b
       /\ b \in DOMAIN connectivity_matrix[a]
       /\ a \in DOMAIN connectivity_matrix[b]
       /\ fixel_TDI[a] # fixel_TDI[b]

\* C4: after the accumulation every stored entry M[a][b] has a < b, and
\* M[min(a,b)][max(a,b)] counts the streamlines whose list holds a and b.
C4_UpperTriangularCooccurrence ==
  AccumulationDone =>
    /\ \A a \in Fixels : \A b \in DOMAIN connectivity_matrix[a] : a < b
    /\ \A a, b \in Fixels :
         a < b => RowGet(connectivity_matrix[a], b) = Rat(Cooccurrences(a, b), 1)

\* C5: once the index is built, a voxel without fixels has first_fixel -1.
C5_EmptyVoxelSentinel ==
  IndexBuilt => \A v \in Voxels : Len(mask[v]) = 0 => fixel_indexer[v].first = -1

RECURSIVE ConcatSlices(_)
ConcatSlices(v) ==
  IF v > NumVoxels THEN <<>>
  ELSE SubSeq(directions, fixel_indexer[v].first + 1,
              fixel_indexer[v].first + fixel_indexer[v].count) \o ConcatSlices(v + 1)

\* C6: once the index is built the counts sum to num_fixels, a voxel of
\* k >= 1 fixels has first_fixel in [0, num_fixels) and its k table entries
\* from first_fixel on are its fixels in order, and the slices of the voxels
\* in scan order make up the fixel table.
C6_IndexBijective ==
  IndexBuilt =>
    /\ SumOver([v \in Voxels |-> fixel_indexer[v].count], NumVoxels) = num_fixels
    /\ \A v \in Voxels :
         Len(mask[v]) >= 1 =>
           /\ fixel_indexer[v].first \in 0..(num_fixels - 1)
           /\ fixel_indexer[v].first + Len(mask[v]) <= num_fixels
           /\ \A f \in 1..Len(mask[v]) :
                directions[fixel_indexer[v].first + f] = mask[v][f]
    /\ ConcatSlices(1) = directions

\* a mask of a two-fixel voxel after a one-fixel voxel, with an empty voxel
C6_Witness ==
  /\ IndexBuilt
  /\ \E u, v, e \in Voxels :
       /\ u < v /\ Len(mask[u]) = 1 /\ Len(mask[v]) = 2 /\ Len(mask[e]) = 0
       /\ mask[v][1] # mask[u][1]

\* C7: after finalisation every fixel has the diagonal entry, equal to 1.0.
C7_DiagonalPresent ==
  phase = "finalised" =>
    \A i \in Fixels : i \in DOMAIN connectivity_matrix[i]
                       /\ connectivity_matrix[i][i] = One

\* a fixel no streamline matched, a fixel that lost every neighbour to the
\* threshold and a fixel that kept one
C7_Witness ==
  /\ phase = "finalised"
  /\ \E i, j, k \in Fixels :
       /\ fixel_TDI[i] = 0
       /\ fixel_TDI[j] > 0 /\ DOMAIN connectivity_matrix[j] = {j}
       /\ DOMAIN connectivity_matrix[k] = {j, k}

\* C8 as stated: symmetrising the finalised matrix again changes nothing.
C8_IdempotentOnFinalised ==
  phase = "finalised" => SymmetriseMatrix(connectivity_matrix) = connectivity_matrix

\* C8 amended: symmetrising the symmetrised matrix again, before the rows
\* are normalised and thresholded, changes no key set and no count.
C8_IdempotentOnSymmetrised ==
  phase = "symmetrised" => SymmetriseMatrix(connectivity_matrix) = connectivity_matrix

\* the accumulation recorded the same pair in both triangles, with
\* different counts, before the symmetrisation
C8_Witness ==
  /\ phase = "symmetrised"
  /\ \E a, b \in Fixels :
       /\ a < b
       /\ b \in DOMAIN connectivity_matrix[a]
       /\ Cooccurrences(a, b) = 2
       /\ connectivity_matrix[a][b] = One

PopulationFamilies == {"_beta", "_abs_effect", "_std_effect", "_std_dev"}
TestFamilies == {"_cfe", "_pvalue", "_perm_dist"}
NoTest == Len(cmdline["notest"]) > 0

\* C9: with the option notest the run writes only the beta, abs_effect,
\* std_effect and std_dev maps, and never a _cfe_*, _pvalue_* or
\* _perm_dist_* file, whatever other options are given.
C9_NoTestWritesOnlyPopulationStats ==
  NoTest => \A f \in written : f[1] \in PopulationFamilies /\ f[1] \notin TestFamilies

DocumentedDefault(o) ==
  CASE o = "nperms" -> 5000
    [] o = "cfe_dh" -> Rat(1, 10)
    [] o = "cfe_e" -> Rat(2, 1)
    [] o = "cfe_h" -> Rat(1, 1)
    [] o = "cfe_c" -> Rat(1, 10)
    [] o = "angle" -> Rat(30, 1)
    [] o = "connectivity" -> Rat(1, 100)
    [] o = "smooth" -> Rat(10, 1)
    [] o = "nperms_nonstationary" -> 5000

Supplied(o) == Len(cmdline[o]) > 0
OptionsParsed == rpc \notin {"off", "options"}

\* the value the run is to use for option o
Intended(o) == IF Supplied(o) THEN cmdline[o][1][1] ELSE DocumentedDefault(o)

\* C11: every parameter of the run is the value supplied with its own option
\* and, when the option is not supplied, its documented default (nperms 5000,
\* cfe_dh 0.1, cfe_e 2.0, cfe_h 1.0, cfe_c 0.1, angle 30, connectivity 0.01,
\* smooth 10, nperms_nonstationary 5000).
C11_DocumentedDefaults ==
  OptionsParsed =>
    /\ params.num_perms = Intended("nperms")
    /\ params.cfe_dh = Intended("cfe_dh")
    /\ params.cfe_e = Intended("cfe_e")
    /\ params.cfe_h = Intended("cfe_h")
    /\ params.cfe_c = Intended("cfe_c")
    /\ params.angular_threshold = Intended("angle")
    /\ params.connectivity_threshold = Intended("connectivity")
    /\ params.smooth_std_dev = FWHMToStdDev(Intended("smooth"))
    /\ params.nperms_nonstationary = Intended("nperms_nonstationary")

\* C12: the non-stationarity pre-pass has run and written _cfe_empirical.msf
\* exactly when the flag nonstationary is supplied.
C12_PrePassIffNonstationaryFlag ==
  (rpc \in {"permutation", "done"}) =>
    (File("_cfe", "_empirical", ".msf") \in written <=> Supplied("nonstationary"))

\* C15: after accumulation and symmetrisation every stored off-diagonal
\* entry (i, j) has 1 <= count_ij <= TDI[i], so that TDI[i] >= 1 for every
\* fixel of a non-empty row and count_ij / TDI[i] lies in (0, 1].
C15_CountBoundedByTDI ==
  phase = "symmetrised" =>
    \A i \in Fixels : \A j \in DOMAIN connectivity_matrix[i] :
      i # j => /\ connectivity_matrix[i][j][2] = 1
               /\ 1 <= connectivity_matrix[i][j][1]
               /\ connectivity_matrix[i][j][1] <= fixel_TDI[i]

\* ------------------------------------------- the track count of one fixel
\* A long tractogram processed by a single TrackProcessor thread: every
\* streamline crosses voxels 1 and 2 along the fixels 0 and 1.
LongTrackInput == <<[vox |-> 1, dir |-> 0], [vox |-> 2, dir |-> 0]>>

\* lines 153-156 run alone for the list L from position n: fixel_TDI[L[n]]++
RECURSIVE SeqTDI(_, _, _)
SeqTDI(tdi, L, n) ==
  IF n > Len(L) THEN tdi
  ELSE SeqTDI([tdi EXCEPT ![L[n]] = (@ + 1) % TDIModulus], L, n + 1)

InitTDI ==
  /\ mask = TemplateMask
  /\ fixel_indexer = BuildIndex(mask).indexer
  /\ directions = BuildIndex(mask).dirs
  /\ ipc = NumVoxels + 1
  /\ fixel_TDI = [f \in Fixels |-> 0]
  /\ connectivity_matrix = [f \in Fixels |-> EmptyRow]
  /\ fixel_mutexes = [f \in Fixels |-> 0]
  /\ wk = [w \in Workers |-> IdleWorker]
  /\ num_tracks = MaxMatches
  /\ loaded = <<>>
  /\ phase = "accumulate"
  /\ fin = <<>>
  /\ tdi_matches = [f \in Fixels |-> 0]
  /\ NoRun

\* lines 131-171 for one streamline, with no other thread running
ProcessStreamlineAlone ==
  /\ phase = "accumulate"
  /\ \A f \in Fixels : tdi_matches[f] < num_tracks
  /\ LET L == MatchList(LongTrackInput, 1)
     IN /\ fixel_TDI' = SeqTDI(fixel_TDI, L, 1)
        /\ connectivity_matrix' = SeqPairs(connectivity_matrix, L, 1, 2)
        /\ tdi_matches' = [f \in Fixels |-> tdi_matches[f] + Count(L, f)]
  /\ UNCHANGED <<indexVars, fixel_mutexes, wk, num_tracks, loaded, phase, fin, runVars>>

NextTDI == ProcessStreamlineAlone

SpecTDI == InitTDI /\ [][NextTDI]_vars

\* n < 2^32, written without the number 2^32
FitsUint32(n) == n \div IntPow(2, 16) < IntPow(2, 16)

\* C13: TDI[f] is the number n of accepted matches at fixel f, for every
\* n < 2^32.
C13_TDIHoldsCount ==
  phase = "accumulate" /\ DOMAIN tdi_matches = Fixels =>
    \A f \in Fixels : FitsUint32(tdi_matches[f]) => fixel_TDI[f] = tdi_matches[f]

\* ------------------------------------------------------- fair scheduling
\* Every thread that can take a step eventually takes one, and run_queue
\* hands a streamline to a free worker while streamlines are left.  A worker
\* is at one place of operator() at a time, so at most one of its steps is
\* enabled and fairness of the thread is fairness of each of its steps.
WorkerStep(w) ==
  \/ W_Take(w)
  \/ W_Match(w)
  \/ W_TDIWrite(w)
  \/ W_Lock(w)
  \/ W_Pair(w)
  \/ W_CellWrite(w)

WorkerFairness(w) == WF_vars(WorkerStep(w))

SpecFair == InitConn /\ [][Next]_vars /\ \A w \in Workers : WorkerFairness(w)

MutexesHeldBy(w) == {f \in Fixels : fixel_mutexes[f] = w}
HoldsAtMostOneMutex == \A w \in Workers : Cardinality(MutexesHeldBy(w)) <= 1

\* run_queue has handed out every streamline and every worker is back from
\* operator()
WorkersFinished ==
  /\ Len(loaded) = num_tracks
  /\ \A w \in Workers : wk[w].pc = "idle"

\* C14: a worker holds at most one row mutex at any time, and under fair
\* scheduling every worker finishes every streamline it was given and the
\* accumulation terminates: from some point on all streamlines have been
\* handed out and no worker is inside operator().
C14_AccumulationTerminates ==
  /\ []HoldsAtMostOneMutex
  /\ <>[]WorkersFinished

\* a worker waits for the mutex of a row that another worker holds
C14_Witness ==
  \E w, v \in Workers :
    /\ w # v
    /\ wk[w].pc = "lock" /\ wk[w].i <= Len(wk[w].L)
    /\ fixel_mutexes[wk[w].L[wk[w].i]] = v

====
